---- MODULE Spec2Model ----
(***************************************************************************)
(* FreightGuard: the alert store of utils/alerting.py (create_alert,       *)
(* resolve_alert), the alerting and cleanup tasks of                       *)
(* dags/delay_prediction_dag.py, the inference engine of                   *)
(* ml/predict_delay.py (load_model, predict_delay, predict_batch), and     *)
(* the trainer of ml/train_model.py (load_training_data, train_model,      *)
(* save_model).                                                            *)
(*                                                                         *)
(* Time is counted in minutes.  Probabilities are integer percentages.     *)
(***************************************************************************)
EXTENDS Integers, Sequences, FiniteSets, TLC

\* ------------------------------------------------------------------ bounds
MaxAlerts == 2
MaxAdvances == 2
MaxBatch == 2
MaxSaves == 2
TrainBlocks == 5

\* ------------------------------------------------------- program constants
\* INTERVAL '1 hour' of the dedup SELECT, in minutes
DedupWindow == 60
\* INTERVAL '30 days' of the alert clean-up, in minutes
AlertRetention == 43200
\* PREDICTION_THRESHOLD default 0.7, in percent
DefaultThreshold == 70
\* len(df) < 100 of load_training_data
MinSamples == 100

Shipments == {"S1", "S2"}
AlertType == "delay_prediction"
AdvanceSteps == {30, 43200}
NoKey == "-"

Fields == {"model", "scaler", "feature_encoders", "feature_columns"}
\* the order in which load_model assigns the fields
FieldOrder == <<"model", "scaler", "feature_encoders", "feature_columns">>

\* __init__: model = None, scaler = None, feature_encoders = {}, feature_columns = []
EngineNew == [f \in Fields |-> 0]

VARIABLES
    now,        \* the database clock NOW(), minutes
    alerts,     \* table alerts: id -> row
    nextId,     \* the serial of alerts.id
    advances,   \* number of clock advances so far
    ret,        \* what the last operation returned
    prev,       \* shipment -> id of the alert the latest create_alert for it emitted, 0 if it emitted none
    pc,         \* concurrent callers of create_alert: position of each
    call,       \* concurrent callers: the call each is in, and what it returned
    file,       \* the artifact at model_path
    eng,        \* the inference DelayPredictor: version held by each of its four fields, 0 = as constructed
    lpc,        \* load_model in progress: 0 = none, k = about to assign the k-th field
    ldata,      \* load_model in progress: model_data, the bundle joblib.load returned
    loaded,     \* some load_model call has returned True
    input,      \* the shipment_list handed to predict_batch, or the arguments of a prepare_features call
    out,        \* what the last predict_delay / predict_batch / load_model call produced
    trainer,    \* the training DelayPredictor and the frame it works on
    saved       \* the model_data of every save_model so far, oldest first

alertVars == <<now, alerts, nextId, advances, ret, prev>>
procVars == <<pc, call>>
trainVars == <<trainer, saved>>
engVars == <<file, eng, lpc, ldata, loaded, input, out, trainer, saved>>
vars == <<now, alerts, nextId, advances, ret, prev, pc, call, file, eng, lpc, ldata, loaded, input, out,
          trainer, saved>>

\* DelayPredictor() of train_model.py: no model, no encoder, a scaler not yet
\* fitted; no frame loaded.  encoder_fit and scaler_fit are the rows the
\* encoders and the scaler were fitted on.
TrainerNew ==
    [stage |-> "new", source |-> "none", df |-> <<>>,
     feature_encoders |-> [c \in {} |-> <<>>], encoder_fit |-> {}, scaler_fit |-> {},
     test |-> {}, X |-> <<>>]

InitTrainer ==
    /\ trainer = TrainerNew
    /\ saved = <<>>

Procs == {"p1", "p2"}
NoCall == [sid |-> NoKey, sev |-> NoKey, t |-> 0, id |-> 0, val |-> FALSE]

\* ------------------------------------------------------------ alert store

\* the two values of alert_data['severity']
Severities == {"Medium", "High"}

\* a row of table alerts as create_alert inserts it from alert_data:
\* is_active and triggered_at take the column defaults TRUE and NOW()
NewRow(sid, sev, t) ==
    [shipment_id |-> sid, alert_type |-> AlertType, severity |-> sev,
     triggered_at |-> t, is_active |-> TRUE, resolved_at |-> -1]

\* the dedup SELECT with the window taken in minutes instead of hours
SelectSimilar_ShortWindow(al, sid, t) ==
    {id \in DOMAIN al :
        /\ al[id].shipment_id = sid
        /\ al[id].alert_type = AlertType
        /\ al[id].is_active
        /\ al[id].triggered_at > t - 1}

\* the dedup SELECT without AND is_active = TRUE
SelectSimilar_AnyStatus(al, sid, t) ==
    {id \in DOMAIN al :
        /\ al[id].shipment_id = sid
        /\ al[id].alert_type = AlertType
        /\ al[id].triggered_at > t - DedupWindow}

\* the dedup SELECT of create_alert: ids of the rows it matches
SelectSimilar(al, sid, t) ==
    {id \in DOMAIN al :
        /\ al[id].shipment_id = sid
        /\ al[id].alert_type = AlertType
        /\ al[id].is_active
        /\ al[id].triggered_at > t - DedupWindow}

\* an upsert: a resolved alert of the shipment is made active again
InsertAlert_Reactivates(al, id, sid, sev, t) ==
    IF \E i \in DOMAIN al : al[i].shipment_id = sid /\ ~al[i].is_active
    THEN [i \in DOMAIN al |->
            IF al[i].shipment_id = sid /\ ~al[i].is_active
            THEN [al[i] EXCEPT !.is_active = TRUE, !.triggered_at = t, !.resolved_at = -1]
            ELSE al[i]]
    ELSE [i \in DOMAIN al \cup {id} |-> IF i = id THEN NewRow(sid, sev, t) ELSE al[i]]

\* INSERT ... RETURNING id, committed
InsertAlert(al, id, sid, sev, t) ==
    [i \in DOMAIN al \cup {id} |-> IF i = id THEN NewRow(sid, sev, t) ELSE al[i]]

\* UPDATE alerts SET is_active = FALSE, resolved_at = NOW() WHERE id = .. AND is_active
ResolveRows(al, id, t) ==
    [i \in DOMAIN al |->
        IF i = id /\ al[i].is_active
        THEN [al[i] EXCEPT !.is_active = FALSE, !.resolved_at = t]
        ELSE al[i]]

\* DELETE FROM alerts WHERE resolved_at IS NOT NULL AND resolved_at < NOW() - 30 days
CleanupRows(al, t) ==
    LET keep == {i \in DOMAIN al :
                    ~(al[i].resolved_at # -1 /\ al[i].resolved_at < t - AlertRetention)}
    IN  [i \in keep |-> al[i]]

Failures == {"none", "before_commit", "after_commit"}

\* create_alert with the notification sent ahead of the INSERT
create_alert_NotifyFirst(db, sid, sev, t, configured, fail) ==
    IF ~configured
    THEN [alerts |-> db.alerts, nextId |-> db.nextId,
          val |-> FALSE, id |-> 0, why |-> "unconfigured", sent |-> 0]
    ELSE IF fail = "before_commit"
    THEN [alerts |-> db.alerts, nextId |-> db.nextId,
          val |-> FALSE, id |-> 0, why |-> "error", sent |-> 1]
    ELSE IF SelectSimilar(db.alerts, sid, t) # {}
    THEN [alerts |-> db.alerts, nextId |-> db.nextId,
          val |-> FALSE, id |-> 0, why |-> "suppressed", sent |-> 0]
    ELSE IF fail = "after_commit"
    THEN [alerts |-> InsertAlert(db.alerts, db.nextId, sid, sev, t),
          nextId |-> db.nextId + 1,
          val |-> FALSE, id |-> db.nextId, why |-> "error", sent |-> 1]
    ELSE [alerts |-> InsertAlert(db.alerts, db.nextId, sid, sev, t),
          nextId |-> db.nextId + 1,
          val |-> TRUE, id |-> db.nextId, why |-> "emitted", sent |-> 1]

\* create_alert as one uninterrupted call on database state db = [alerts, nextId].
\* configured: DATABASE_URL is set.  fail: where the database step raises.
\* Returns the new database state with the call's return value (val) and the
\* number of notifications it sent (sent).
create_alert(db, sid, sev, t, configured, fail) ==
    IF ~configured
    THEN [alerts |-> db.alerts, nextId |-> db.nextId,
          val |-> FALSE, id |-> 0, why |-> "unconfigured", sent |-> 0]
    ELSE IF fail = "before_commit"
    THEN [alerts |-> db.alerts, nextId |-> db.nextId,
          val |-> FALSE, id |-> 0, why |-> "error", sent |-> 0]
    ELSE IF SelectSimilar(db.alerts, sid, t) # {}
    THEN [alerts |-> db.alerts, nextId |-> db.nextId,
          val |-> FALSE, id |-> 0, why |-> "suppressed", sent |-> 0]
    ELSE IF fail = "after_commit"
    THEN [alerts |-> InsertAlert(db.alerts, db.nextId, sid, sev, t),
          nextId |-> db.nextId + 1,
          val |-> FALSE, id |-> db.nextId, why |-> "error", sent |-> 0]
    ELSE [alerts |-> InsertAlert(db.alerts, db.nextId, sid, sev, t),
          nextId |-> db.nextId + 1,
          val |-> TRUE, id |-> db.nextId, why |-> "emitted", sent |-> 1]

DB == [alerts |-> alerts, nextId |-> nextId]

Ret(op, val, why, count) ==
    [op |-> op, val |-> val, why |-> why, count |-> count]

\* the loop of trigger_alerts over the predictions pulled from predict_delays;
\* each prediction carries the failure its create_alert call would meet.
\* st = [alerts, nextId, prev, count, sent]
\* one iteration's bookkeeping: r is what create_alert returned for pr
after_create(st, pr, r) ==
    [alerts |-> r.alerts, nextId |-> r.nextId,
     prev |-> [st.prev EXCEPT ![pr.sid] = IF r.val THEN r.id ELSE 0],
     count |-> st.count + (IF r.val THEN 1 ELSE 0)]

\* the high severity tier with its breakpoint at the alert threshold
Severity_AtThreshold(p) == IF p >= 70 THEN "High" ELSE "Medium"

\* alert_data['severity']: 'High' if delay_probability >= 0.8 else 'Medium'
Severity(p) == IF p >= 80 THEN "High" ELSE "Medium"

RECURSIVE trigger_loop(_, _, _, _, _)
trigger_loop(st, preds, threshold, t, configured) ==
    IF preds = <<>> THEN st
    ELSE LET pr == Head(preds)
             nx == IF pr.p >= threshold
                   THEN CHOOSE x \in {after_create(st, pr,
                            create_alert([alerts |-> st.alerts, nextId |-> st.nextId],
                                         pr.sid, Severity(pr.p), t, configured, pr.fail))} : TRUE
                   ELSE st
         IN  trigger_loop(nx, Tail(preds), threshold, t, configured)

\* ------------------------------------------------- sequential operations

CreateAlert(sid, sev, configured, fail) ==
    /\ \E r \in {create_alert(DB, sid, sev, now, configured, fail)} :
           /\ r.nextId <= MaxAlerts + 1
           /\ alerts' = r.alerts
           /\ nextId' = r.nextId
           /\ ret' = Ret("create_alert", r.val, r.why, r.sent)
           /\ prev' = [prev EXCEPT ![sid] = IF r.val THEN r.id ELSE 0]
    /\ UNCHANGED <<now, advances, pc, call>>
    /\ UNCHANGED engVars

ResolveAlert(id) ==
    /\ alerts' = ResolveRows(alerts, id, now)
    /\ UNCHANGED <<now, nextId, advances, ret, prev, pc, call>>
    /\ UNCHANGED engVars

CleanupOldData ==
    /\ alerts' = CleanupRows(alerts, now)
    /\ UNCHANGED <<now, nextId, advances, ret, prev, pc, call>>
    /\ UNCHANGED engVars

\* predictions as predict_delays pushes them: at most one per shipment
\* (shipments.shipment_id is unique), here in the order of Shipments
PredProbs == {60, 90}
Thresholds == {DefaultThreshold}
Preds(sid) ==
    {pr \in [sid : {sid}, p : PredProbs, fail : Failures] :
        pr.p < DefaultThreshold => pr.fail = "none"}
PredLists ==
    {<<a>> : a \in Preds("S1") \cup Preds("S2")}
    \cup {<<a, b>> : a \in Preds("S1"), b \in Preds("S2")}
\* without DATABASE_URL no database step is reached, so none can fail
TaskInputs ==
    {in \in [preds : PredLists, configured : BOOLEAN] :
        in.configured \/ \A i \in 1..Len(in.preds) : in.preds[i].fail = "none"}

TriggerAlerts(preds, threshold, configured) ==
    /\ \E st \in {trigger_loop([alerts |-> alerts, nextId |-> nextId,
                                prev |-> prev, count |-> 0],
                               preds, threshold, now, configured)} :
           /\ st.nextId <= MaxAlerts + 1
           /\ alerts' = st.alerts
           /\ nextId' = st.nextId
           /\ prev' = st.prev
           /\ ret' = Ret("trigger_alerts", st.count > 0, "done", st.count)
    /\ UNCHANGED <<now, advances, pc, call>>
    /\ UNCHANGED engVars

Advance(d) ==
    /\ advances < MaxAdvances
    /\ now' = now + d
    /\ advances' = advances + 1
    /\ UNCHANGED <<alerts, nextId, ret, prev, pc, call>>
    /\ UNCHANGED engVars

InitAlerts ==
    /\ now = 0
    /\ alerts = <<>>
    /\ nextId = 1
    /\ advances = 0
    /\ ret = Ret("none", FALSE, "none", 0)
    /\ prev = [s \in Shipments |-> 0]

InitProcs ==
    /\ pc = [p \in Procs |-> "idle"]
    /\ call = [p \in Procs |-> NoCall]

\* no artifact, an engine as constructed
EngineIdle ==
    /\ file = [exists |-> FALSE, torn |-> FALSE, fields |-> EngineNew]
    /\ eng = EngineNew
    /\ lpc = 0
    /\ ldata = EngineNew
    /\ loaded = FALSE
    /\ input = <<>>
    /\ out = [op |-> "none", raised |-> FALSE, ok |-> FALSE, results |-> <<>>]

Init == InitAlerts /\ InitProcs /\ InitTrainer /\ EngineIdle

\* ------------------------------------- create_alert, callers interleaved
\* Each caller has its own connection; the statements of one call are the
\* steps.  A row is visible to the other callers from its commit on.

\* lines 37-58: connect, run the dedup SELECT, return False when it finds a row
Select(p, sid, sev) ==
    /\ pc[p] = "idle"
    /\ IF SelectSimilar(alerts, sid, now) # {}
       THEN /\ pc' = pc
            /\ call' = [call EXCEPT ![p] = [sid |-> sid, sev |-> sev, t |-> now, id |-> 0, val |-> FALSE]]
       ELSE /\ pc' = [pc EXCEPT ![p] = "insert"]
            /\ call' = [call EXCEPT ![p] = [sid |-> sid, sev |-> sev, t |-> now, id |-> 0, val |-> FALSE]]
    /\ UNCHANGED alertVars
    /\ UNCHANGED engVars

\* lines 60-84: INSERT, commit, notify, return True; NOW() is the time the
\* transaction began.  An exception before the commit returns False (86-88).
InsertCommit(p, fail) ==
    /\ pc[p] = "insert"
    /\ nextId <= MaxAlerts
    /\ pc' = [pc EXCEPT ![p] = "idle"]
    /\ IF fail = "before_commit"
       THEN /\ UNCHANGED <<alerts, nextId>>
            /\ call' = [call EXCEPT ![p].val = FALSE]
       ELSE /\ alerts' = InsertAlert(alerts, nextId, call[p].sid, call[p].sev, call[p].t)
            /\ nextId' = nextId + 1
            /\ call' = [call EXCEPT ![p].id = nextId, ![p].val = (fail = "none")]
    /\ UNCHANGED <<now, advances, ret, prev>>
    /\ UNCHANGED engVars

NextConc ==
    \/ \E p \in Procs, sid \in Shipments, sev \in Severities : Select(p, sid, sev)
    \/ \E p \in Procs, f \in Failures : InsertCommit(p, f)
    \/ \E d \in AdvanceSteps : Advance(d)

\* two callers of create_alert running at the same time
SpecConc == Init /\ [][NextConc]_vars

NextSeq ==
    \/ \E sid \in Shipments, sev \in Severities, c \in BOOLEAN, f \in Failures :
           CreateAlert(sid, sev, c, f)
    \/ \E id \in 1..MaxAlerts : ResolveAlert(id)
    \/ \E d \in AdvanceSteps : Advance(d)

\* create_alert, resolve_alert and the clock, one call at a time
SpecSeq == Init /\ [][NextSeq]_vars

Next ==
    \/ \E in \in TaskInputs, th \in Thresholds :
           TriggerAlerts(in.preds, th, in.configured)
    \/ \E id \in 1..MaxAlerts : ResolveAlert(id)
    \/ CleanupOldData
    \/ \E d \in AdvanceSteps : Advance(d)

\* the pipeline's alerting and clean-up tasks, with alerts resolved from outside
Spec == Init /\ [][Next]_vars

\* ------------------------------------------------------ inference engine

\* what is at model_path: nothing, or a bundle of version v lacking the keys in
\* missing; torn while a joblib.dump to it has opened the file and not closed it
NoFile == [exists |-> FALSE, torn |-> FALSE, fields |-> [f \in Fields |-> 0]]
Bundle(v, missing) ==
    [exists |-> TRUE, torn |-> FALSE,
     fields |-> [f \in Fields |-> IF f \in missing THEN 0 ELSE v]]
InitialFiles == {NoFile, Bundle(1, {})} \cup {Bundle(1, {f}) : f \in Fields}

\* an observation's distance_remaining_km: a number, a text that is no number, or no such key
Km(n) == [kind |-> "num", km |-> n]
Distances == {Km(1500), [kind |-> "text", km |-> 0], [kind |-> "absent", km |-> 0]}
Observations == [shipment_id : Shipments, distance : Distances]
\* what scaler.transform / model.predict_proba do with an item: a probability, or raise
Proba(q) == [ok |-> TRUE, p |-> q]
Classifier == {Proba(30), Proba(50), Proba(90), [ok |-> FALSE, p |-> 0]}
Items == [obs : Observations, c : Classifier]

Min(a, b) == IF a <= b THEN a ELSE b
\* int(x) of a quotient: truncation towards zero
TruncDiv(a, b) == IF a >= 0 THEN a \div b ELSE -((-a) \div b)

\* the estimate with the test written delay_probability >= 0.5
EstimatedDelay_FromHalf(p, km) ==
    IF p >= 50 THEN TruncDiv(p * 120 * Min(km, 2000), 100 * 1000) ELSE 0

\* lines 113-119: estimated_delay_minutes, p in percent, km a number
EstimatedDelay(p, km) ==
    IF p > 50 THEN TruncDiv(p * 120 * Min(km, 2000), 100 * 1000) ELSE 0

\* the tiers with the upper breakpoint exclusive
RiskLevel_Exclusive(p) == IF p > 70 THEN "High" ELSE IF p >= 40 THEN "Medium" ELSE "Low"

\* lines 121-127
RiskLevel(p) == IF p >= 70 THEN "High" ELSE IF p >= 40 THEN "Medium" ELSE "Low"

Result(sid, p, risk, est, err) ==
    [shipment_id |-> sid, delay_probability |-> p, risk_level |-> risk,
     estimated_delay_minutes |-> est, error |-> err]

\* a default prediction of no delay at all
Degraded_NoDelay(sid, err) == Result(sid, 0, "Low", 0, err)

\* a default prediction that takes the delay for certain
Degraded_Certain(sid, err) == Result(sid, 100, "High", 60, err)

\* the "default safe prediction" of lines 144-152 and 164-172
Degraded(sid, err) == Result(sid, 50, "Medium", 60, err)

\* the first statement of predict_delay's try block that raises, "none" if none does
FirstError(e, obs, c) ==
    IF obs.distance.kind = "absent" THEN "features"
    ELSE IF e["scaler"] = 0 \/ e["feature_columns"] = 0 THEN "scale"
    ELSE IF ~c.ok THEN "classify"
    ELSE IF c.p > 50 /\ obs.distance.kind # "num" THEN "estimate"
    ELSE "none"

\* predict_delay on engine e: raises (raised) or returns a result
predict_delay(e, obs, c) ==
    IF e["model"] = 0
    THEN [raised |-> TRUE, error |-> "not_loaded",
          result |-> Degraded(obs.shipment_id, "not_loaded")]
    ELSE IF FirstError(e, obs, c) # "none"
    THEN [raised |-> FALSE, error |-> "none",
          result |-> Degraded(obs.shipment_id, FirstError(e, obs, c))]
    ELSE [raised |-> FALSE, error |-> "none",
          result |-> Result(obs.shipment_id, c.p, RiskLevel(c.p),
                            EstimatedDelay(c.p, obs.distance.km), "none")]

\* one iteration of predict_batch's loop: the entry appended to results
batch_entry(e, item) ==
    IF predict_delay(e, item.obs, item.c).raised
    THEN Degraded(item.obs.shipment_id, predict_delay(e, item.obs, item.c).error)
    ELSE predict_delay(e, item.obs, item.c).result

\* the loop leaving out the shipments whose prediction failed
RECURSIVE predict_batch_DropsFailed(_, _, _)
predict_batch_DropsFailed(e, items, acc) ==
    IF items = <<>> THEN acc
    ELSE predict_batch_DropsFailed(e, Tail(items),
            IF batch_entry(e, Head(items)).error # "none"
            THEN acc
            ELSE Append(acc, batch_entry(e, Head(items))))

\* predict_batch: the loop over shipment_list, results so far in acc
RECURSIVE predict_batch(_, _, _)
predict_batch(e, items, acc) ==
    IF items = <<>> THEN acc
    ELSE predict_batch(e, Tail(items), Append(acc, batch_entry(e, Head(items))))

Out(op, raised, ok, results) ==
    [op |-> op, raised |-> raised, ok |-> ok, results |-> results]

\* joblib.load(self.model_path): a missing file raises, and so does one whose
\* pickle stream ends early; both are caught at line 40
LoadBegin ==
    /\ lpc = 0
    /\ IF file.exists /\ ~file.torn
       THEN /\ ldata' = file.fields
            /\ lpc' = 1
            /\ out' = out
       ELSE /\ out' = Out("load_model", FALSE, FALSE, <<>>)
            /\ UNCHANGED <<ldata, lpc>>
    /\ UNCHANGED <<file, eng, loaded, input, trainer, saved>>
    /\ UNCHANGED <<alertVars, procVars>>

\* lines 32-35, one assignment at a time: self.<field> = model_data['<field>'];
\* a missing key raises KeyError, caught at line 40
LoadAssign ==
    /\ lpc >= 1
    /\ LET f == FieldOrder[lpc] IN
       IF ldata[f] = 0
       THEN /\ lpc' = 0
            /\ out' = Out("load_model", FALSE, FALSE, <<>>)
            /\ UNCHANGED <<eng, loaded>>
       ELSE /\ eng' = [eng EXCEPT ![f] = ldata[f]]
            /\ IF lpc < Len(FieldOrder)
               THEN /\ lpc' = lpc + 1
                    /\ UNCHANGED <<out, loaded>>
               ELSE /\ lpc' = 0
                    /\ loaded' = TRUE
                    /\ out' = Out("load_model", FALSE, TRUE, <<>>)
    /\ UNCHANGED <<file, ldata, input, trainer, saved>>
    /\ UNCHANGED <<alertVars, procVars>>

\* DelayPredictor(): the fields as constructed, then load_model only if
\* something exists at model_path; with nothing there the constructor
\* completes without a word and load_model's return value is dropped
Construct ==
    /\ lpc = 0
    /\ eng' = EngineNew
    /\ loaded' = FALSE
    /\ IF file.exists /\ ~file.torn
       THEN /\ ldata' = file.fields
            /\ lpc' = 1
            /\ out' = out
       ELSE /\ out' = Out("__init__", FALSE, TRUE, <<>>)
            /\ UNCHANGED <<ldata, lpc>>
    /\ UNCHANGED <<file, input, trainer, saved>>
    /\ UNCHANGED <<alertVars, procVars>>

\* predict_delay dropping the artifact when the prediction fails
PredictDelay_DropsArtifact ==
    /\ input # <<>>
    /\ \E r \in {predict_delay(eng, Head(input).obs, Head(input).c)} :
          /\ out' = Out("predict_delay", r.raised, ~r.raised,
                        IF r.raised THEN <<>> ELSE <<r.result>>)
          /\ eng' = IF ~r.raised /\ r.result.error # "none" THEN EngineNew ELSE eng
    /\ UNCHANGED <<file, lpc, ldata, loaded, input, trainer, saved>>
    /\ UNCHANGED <<alertVars, procVars>>

\* predict_delay on the first shipment of the list
PredictDelay ==
    /\ input # <<>>
    /\ \E r \in {predict_delay(eng, Head(input).obs, Head(input).c)} :
          out' = Out("predict_delay", r.raised, ~r.raised,
                     IF r.raised THEN <<>> ELSE <<r.result>>)
    /\ UNCHANGED <<file, eng, lpc, ldata, loaded, input, trainer, saved>>
    /\ UNCHANGED <<alertVars, procVars>>

BatchInputs == UNION {[1..n -> Items] : n \in 0..MaxBatch}

PredictBatch ==
    /\ out' = Out("predict_batch", FALSE, TRUE, predict_batch(eng, input, <<>>))
    /\ UNCHANGED <<file, eng, lpc, ldata, loaded, input, trainer, saved>>
    /\ UNCHANGED <<alertVars, procVars>>

\* an engine constructed while nothing was at model_path; the artifact, if
\* any, has been put there since
InitEngine ==
    /\ InitAlerts
    /\ InitProcs
    /\ InitTrainer
    /\ file \in InitialFiles
    /\ input \in BatchInputs
    /\ eng = EngineNew
    /\ lpc = 0
    /\ ldata = NoFile.fields
    /\ loaded = FALSE
    /\ out = Out("none", FALSE, FALSE, <<>>)

NextEngine ==
    \/ Construct
    \/ LoadBegin
    \/ LoadAssign
    \/ PredictDelay
    \/ PredictBatch

\* one engine, loads and predictions in any interleaving
SpecEngine == InitEngine /\ [][NextEngine]_vars

\* ------------------------------------ predictions on a loaded engine
\* One shipment at a time on an engine whose artifact loaded completely,
\* with probabilities at and around every breakpoint and distances of every
\* kind an observation can carry.

ProbeProbs == {0, 39, 40, 50, 51, 69, 70, 90, 100}
ProbeDistances ==
    {Km(-500), Km(0), Km(1005), Km(2000), Km(2800),
     [kind |-> "text", km |-> 0], [kind |-> "absent", km |-> 0]}
ProbeClassifier == {Proba(q) : q \in ProbeProbs} \cup {[ok |-> FALSE, p |-> 0]}
ProbeItems == [obs : [shipment_id : {"S1"}, distance : ProbeDistances], c : ProbeClassifier]
\* the threshold parameter's default 0.7, in percent
ShouldAlertDefault == 70
ProbeThresholds == {50, ShouldAlertDefault}

\* the test with the threshold itself excluded
should_trigger_alert_Above(pr, threshold) == pr.delay_probability > threshold

\* should_trigger_alert(prediction_result, threshold)
should_trigger_alert(pr, threshold) == pr.delay_probability >= threshold

\* should_trigger_alert on the prediction the last call returned
ShouldTriggerAlert(threshold) ==
    /\ out.results # <<>>
    /\ out' = Out("should_trigger_alert", FALSE,
                  should_trigger_alert(Head(out.results), threshold), out.results)
    /\ UNCHANGED <<file, eng, lpc, ldata, loaded, input, trainer, saved>>
    /\ UNCHANGED <<alertVars, procVars>>

\* DelayPredictor() with a complete bundle at model_path: load_model has
\* assigned all four fields and returned True
InitPredict ==
    /\ InitAlerts
    /\ InitProcs
    /\ InitTrainer
    /\ file = Bundle(1, {})
    /\ eng = Bundle(1, {}).fields
    /\ lpc = 0
    /\ ldata = Bundle(1, {}).fields
    /\ loaded = TRUE
    /\ input \in {<<it>> : it \in ProbeItems}
    /\ out = Out("load_model", FALSE, TRUE, <<>>)

NextPredict ==
    \/ PredictDelay
    \/ PredictBatch
    \/ \E th \in ProbeThresholds : ShouldTriggerAlert(th)

SpecPredict == InitPredict /\ [][NextPredict]_vars

\* ------------------------------------- predict_delays, then trigger_alerts
\* The two tasks of the DAG in sequence: predict_delays runs predict_batch on
\* the active shipments and pushes the results to XCom, trigger_alerts pulls
\* them and calls create_alert for those at or above the threshold.

PipeProbs == {65, 70, 75, 80, 85}
PipeItems(sid) ==
    {[obs |-> [shipment_id |-> sid, distance |-> Km(1500)], c |-> c] :
        c \in {Proba(q) : q \in PipeProbs} \cup {[ok |-> FALSE, p |-> 0]}}
\* the rows of the shipments query: shipment_id is unique
PipeInputs ==
    {<<>>}
    \cup {<<a>> : a \in PipeItems("S1") \cup PipeItems("S2")}
    \cup {<<a, b>> : a \in PipeItems("S1"), b \in PipeItems("S2")}

\* predict_delays: no active shipment, no push; otherwise the results of
\* predict_batch are pushed under key 'predictions'
PredictDelaysTask ==
    /\ IF input = <<>>
       THEN out' = out
       ELSE out' = Out("predict_delays", FALSE, TRUE, predict_batch(eng, input, <<>>))
    /\ UNCHANGED <<file, eng, lpc, ldata, loaded, input, trainer, saved>>
    /\ UNCHANGED <<alertVars, procVars>>

\* xcom_pull(task_ids='predict_delays', key='predictions') as trigger_alerts
\* reads it: shipment_id and delay_probability of each prediction
xcom_pull ==
    [i \in DOMAIN out.results |->
        [sid |-> out.results[i].shipment_id,
         p |-> out.results[i].delay_probability,
         fail |-> "none"]]

InitPipeline ==
    /\ InitAlerts
    /\ InitProcs
    /\ InitTrainer
    /\ file = Bundle(1, {})
    /\ eng = Bundle(1, {}).fields
    /\ lpc = 0
    /\ ldata = Bundle(1, {}).fields
    /\ loaded = TRUE
    /\ input \in PipeInputs
    /\ out = Out("load_model", FALSE, TRUE, <<>>)

NextPipeline ==
    \/ PredictDelaysTask
    \/ \E th \in ProbeThresholds : ShouldTriggerAlert(th)
    \/ \E th \in ProbeThresholds, c \in BOOLEAN : TriggerAlerts(xcom_pull, th, c)

SpecPipeline == InitPipeline /\ [][NextPipeline]_vars

\* ------------------------------------------------------ prepare_features
\* prepare_features as a function of the engine's feature_columns and
\* feature_encoders and of the observation.  A vector entry is
\* [col, src, val]: src tells where the column came from ("computed" by
\* prepare_features, "raw" from the observation, "filled" by the final
\* loop); val is the number, in thousandths for route_complexity and the
\* two risk scores, and 0 for a raw column.

CatFields == {"weather", "traffic_level"}
\* LabelEncoder.classes_ of the trainer's synthetic data, sorted
Classes ==
    [weather |-> <<"Clear", "Fog", "Rain", "Snow", "Storm">>,
     traffic_level |-> <<"Heavy", "Light", "Moderate", "Very Heavy">>]
\* feature_columns as the trainer saves them
TrainedColumns ==
    <<"distance_remaining_km", "vehicle_speed_kmph", "weather_encoded",
      "traffic_level_encoded", "hour_of_day", "day_of_week", "is_weekend",
      "origin_risk_score", "destination_risk_score", "route_complexity">>
Schemas ==
    {TrainedColumns, <<>>,
     <<"route_complexity", "weather_encoded", "cargo_weight">>,
     <<"weather", "traffic_level_encoded">>}
\* feature_encoders: the fields that have an encoder, each with its classes_
EncoderSets == {[c \in S |-> Classes[c]] : S \in SUBSET CatFields}

Kmph(n) == [kind |-> "num", kmph |-> n]
FeatureObservations ==
    [distance : {Km(2800), [kind |-> "text", km |-> 0], [kind |-> "absent", km |-> 0]},
     speed : {Kmph(45), [kind |-> "text", kmph |-> 0], [kind |-> "absent", kmph |-> 0]},
     weather : {"Rain", "Hail", NoKey},
     traffic_level : {"Heavy", "Gridlock", NoKey},
     timestamp : {"2024-01-15T14:30:00Z", NoKey}]
FeatureInputs ==
    [obs : FeatureObservations, feature_columns : Schemas, feature_encoders : EncoderSets]

\* the columns prepare_features assigns
ComputedFields ==
    {"distance_remaining_km", "vehicle_speed_kmph", "weather_encoded",
     "traffic_level_encoded", "timestamp", "hour_of_day", "day_of_week",
     "is_weekend", "origin_risk_score", "destination_risk_score",
     "route_complexity"}

\* the keys of the observation, the columns of DataFrame([shipment_data])
ObsColumns(obs) ==
    {c \in {"distance_remaining_km"} : obs.distance.kind # "absent"}
    \cup {c \in {"vehicle_speed_kmph"} : obs.speed.kind # "absent"}
    \cup {c \in CatFields : obs[c] # NoKey}
    \cup {c \in {"timestamp"} : obs.timestamp # NoKey}

\* encoder.transform([x])[0]: the position of x in classes_, from 0; a
\* value not in classes_ raises
Transform(classes, x) ==
    IF \E k \in DOMAIN classes : classes[k] = x
    THEN [raised |-> FALSE, code |-> (CHOOSE k \in DOMAIN classes : classes[k] = x) - 1]
    ELSE [raised |-> TRUE, code |-> 0]

\* the encoding with every value handed to the encoder
Encode_Unguarded(col, encs, obs) ==
    IF obs[col] # NoKey /\ col \in DOMAIN encs
    THEN Transform(encs[col], obs[col])
    ELSE [raised |-> FALSE, code |-> 0]

\* lines 54-63: <col>_encoded
Encode(col, encs, obs) ==
    IF obs[col] # NoKey /\ col \in DOMAIN encs
    THEN IF \E k \in DOMAIN encs[col] : encs[col][k] = obs[col]
         THEN Transform(encs[col], obs[col])
         ELSE [raised |-> FALSE, code |-> 0]
    ELSE [raised |-> FALSE, code |-> 0]

Entry(col, src, val) == [col |-> col, src |-> src, val |-> val]

\* pd.to_numeric(.., errors='coerce').fillna(default)
Coerce(kind, n, default) == IF kind = "num" THEN n ELSE default

\* the time features taken from the clock whatever the observation holds
TimeOf_Clock(ts, t) == [hour |-> (t \div 60) % 24, dow |-> (t \div 1440) % 7]

\* lines 66-72: hour_of_day and day_of_week of the observation's timestamp
\* (a Monday, 14:30), or of datetime.now() when it has none; the clock t
\* counts minutes from a Monday 00:00
TimeOf(ts, t) ==
    IF ts = NoKey
    THEN [hour |-> (t \div 60) % 24, dow |-> (t \div 1440) % 7]
    ELSE [hour |-> 14, dow |-> 0]

\* the value a column of the returned frame holds
Column(col, encs, obs, t0) ==
    LET d == Coerce(obs.distance.kind, obs.distance.km, 1000)
        v == Coerce(obs.speed.kind, obs.speed.kmph, 60)
        t == TimeOf(obs.timestamp, t0)
    IN  CASE col = "distance_remaining_km" -> Entry(col, "computed", d)
          [] col = "vehicle_speed_kmph" -> Entry(col, "computed", v)
          [] col = "weather_encoded" -> Entry(col, "computed", Encode("weather", encs, obs).code)
          [] col = "traffic_level_encoded" ->
                 Entry(col, "computed", Encode("traffic_level", encs, obs).code)
          [] col = "hour_of_day" -> Entry(col, "computed", t.hour)
          [] col = "day_of_week" -> Entry(col, "computed", t.dow)
          [] col = "is_weekend" -> Entry(col, "computed", IF t.dow >= 5 THEN 1 ELSE 0)
          [] col = "origin_risk_score" -> Entry(col, "computed", 100)
          [] col = "destination_risk_score" -> Entry(col, "computed", 100)
          [] col = "route_complexity" -> Entry(col, "computed", (d * 1000) \div ((v + 1) * 100))
          [] col = "timestamp" -> Entry(col, "computed", 0)
          [] col \in ObsColumns(obs) /\ col \notin ComputedFields -> Entry(col, "raw", 0)
          [] OTHER -> Entry(col, "filled", 0)

\* prepare_features called at time t: raises (KeyError at line 50 or 51 for
\* an absent key, or out of an encoder), or returns df[self.feature_columns]
prepare_features(cols, encs, obs, t) ==
    IF \/ obs.distance.kind = "absent"
       \/ obs.speed.kind = "absent"
       \/ \E c \in CatFields : Encode(c, encs, obs).raised
    THEN [raised |-> TRUE, vector |-> <<>>]
    ELSE [raised |-> FALSE, vector |-> [i \in DOMAIN cols |-> Column(cols[i], encs, obs, t)]]

\* prepare_features on the arguments in input
PrepareFeatures ==
    /\ \E r \in {prepare_features(input[1].feature_columns,
                                   input[1].feature_encoders, input[1].obs, now)} :
          out' = Out("prepare_features", r.raised, ~r.raised, r.vector)
    /\ UNCHANGED <<file, eng, lpc, ldata, loaded, input, trainer, saved>>
    /\ UNCHANGED <<alertVars, procVars>>

\* a loaded engine; input holds the arguments of one prepare_features call
InitFeatures ==
    /\ InitAlerts
    /\ InitProcs
    /\ InitTrainer
    /\ file = Bundle(1, {})
    /\ eng = Bundle(1, {}).fields
    /\ lpc = 0
    /\ ldata = Bundle(1, {}).fields
    /\ loaded = TRUE
    /\ input \in {<<a>> : a \in FeatureInputs}
    /\ out = Out("load_model", FALSE, TRUE, <<>>)

NextFeatures ==
    \/ PrepareFeatures
    \/ \E d \in AdvanceSteps : Advance(d)

SpecFeatures == InitFeatures /\ [][NextFeatures]_vars

\* ------------------------------------------------------------- training
\* train_model.py, main(): a new DelayPredictor, load_training_data,
\* train_model, save_model.  A frame is modelled by TrainBlocks rows, each
\* standing for an equal share of the frame's rows.

Row(origin, weather, traffic_level) ==
    [origin |-> origin, destination |-> "Chicago", weather |-> weather,
     traffic_level |-> traffic_level, distance |-> Km(2800), speed |-> Kmph(45),
     timestamp |-> "2024-01-15T14:30:00Z"]
KindOrder ==
    <<Row("Los Angeles", "Clear", "Heavy"), Row("Los Angeles", "Rain", "Heavy"),
      Row("New York", "Clear", "Heavy"), Row("New York", "Rain", "Heavy")>>

\* train_test_split(test_size=0.2, random_state=42): ceil(0.2 n) rows are
\* held out, at positions the seed fixes for a frame of n rows
TestSize(n) == (n + 4) \div 5
test_rows(n) == (n - TestSize(n) + 1) .. n

\* the frames a history can hold; the order of the rows outside the held-out
\* positions matters to no fit, so they are listed in one order only
Frames ==
    {[i \in 1 .. TrainBlocks |-> KindOrder[f[i]]] :
        f \in {g \in [1 .. TrainBlocks -> DOMAIN KindOrder] :
                  \A i, j \in (1 .. TrainBlocks) \ test_rows(TrainBlocks) :
                      i < j => g[i] <= g[j]}}

\* _generate_synthetic_training_data: every weather condition and every
\* traffic level occurs, over both cities
SyntheticFrame ==
    [i \in 1 .. TrainBlocks |->
        Row(IF i % 2 = 1 THEN "Los Angeles" ELSE "New York",
            Classes.weather[((i - 1) % Len(Classes.weather)) + 1],
            Classes.traffic_level[((i - 1) % Len(Classes.traffic_level)) + 1])]

\* what the query of load_training_data meets: a database that answers with
\* count rows (the frame rows), or one that raises
Histories == [db : {"ok", "error"}, count : {MinSamples - 1, MinSamples}, rows : Frames]
FallbackHistories == {h \in Histories : h.db = "error" \/ h.count < MinSamples}

\* lines 43-82: the rows read, or the synthetic frame when they are fewer
\* than 100 or the database raised
load_training_data(h) ==
    IF h.db = "ok" /\ h.count >= MinSamples
    THEN [source |-> "real", df |-> h.rows]
    ELSE [source |-> "synthetic", df |-> SyntheticFrame]

\* LabelEncoder().fit(df[col]) over the rows idx: the sorted distinct values
fit(col, df, idx) ==
    LET present(x) == \E i \in idx : df[i][col] = x
    IN  SelectSeq(Classes[col], present)

\* lines 155-161, with no encoder fitted yet: one per field, fit_transform
\* on the column of df
engineer_encoders(df) == [c \in CatFields |-> fit(c, df, DOMAIN df)]

Count(df, col, x) == Cardinality({i \in DOMAIN df : df[i][col] = x})

\* lines 163-183: the value engineer_features gives row i in a column
engineer_column(col, encs, df, i) ==
    LET d == df[i].distance.km
        v == df[i].speed.kmph
        t == TimeOf(df[i].timestamp, 0)
    IN  CASE col = "distance_remaining_km" -> d
          [] col = "vehicle_speed_kmph" -> v
          [] col = "weather_encoded" -> Transform(encs.weather, df[i].weather).code
          [] col = "traffic_level_encoded" ->
                 Transform(encs.traffic_level, df[i].traffic_level).code
          [] col = "hour_of_day" -> t.hour
          [] col = "day_of_week" -> t.dow
          [] col = "is_weekend" -> IF t.dow >= 5 THEN 1 ELSE 0
          [] col = "origin_risk_score" ->
                 (Count(df, "origin", df[i].origin) * 1000) \div Len(df)
          [] col = "destination_risk_score" ->
                 (Count(df, "destination", df[i].destination) * 1000) \div Len(df)
          [] col = "route_complexity" -> (d * 1000) \div ((v + 1) * 100)

\* df_features[self.feature_columns]
engineer_features(encs, df) ==
    [i \in DOMAIN df |->
        [k \in DOMAIN TrainedColumns |-> engineer_column(TrainedColumns[k], encs, df, i)]]

\* lines 261-268: the bundle save_model builds; the classifier and the
\* scaler stand for the rows they were fitted on
model_data(tr, t) ==
    [model |-> DOMAIN tr.df \ tr.test,
     scaler |-> tr.scaler_fit,
     feature_encoders |-> tr.feature_encoders,
     feature_columns |-> TrainedColumns,
     trained_at |-> t,
     version |-> "1.0"]

\* main, lines 300-305: predictor = DelayPredictor(), then load_training_data
LoadTrainingData(h) ==
    /\ trainer.stage \in {"new", "saved"}
    /\ Len(saved) < MaxSaves
    /\ \E r \in {load_training_data(h)} :
          trainer' = [TrainerNew EXCEPT !.stage = "loaded", !.source = r.source, !.df = r.df]
    /\ UNCHANGED <<file, eng, lpc, ldata, loaded, input, out, saved>>
    /\ UNCHANGED <<alertVars, procVars>>

\* train_model: engineer_features on the whole frame, the split, the scaler
\* fitted on X_train, the classifier fitted on the scaled X_train
TrainModel ==
    /\ trainer.stage = "loaded"
    /\ \E encs \in {engineer_encoders(trainer.df)} :
          trainer' = [trainer EXCEPT !.stage = "trained",
                                     !.feature_encoders = encs,
                                     !.encoder_fit = DOMAIN trainer.df,
                                     !.X = engineer_features(encs, trainer.df),
                                     !.test = test_rows(Len(trainer.df)),
                                     !.scaler_fit = DOMAIN trainer.df \ test_rows(Len(trainer.df))]
    /\ UNCHANGED <<file, eng, lpc, ldata, loaded, input, out, saved>>
    /\ UNCHANGED <<alertVars, procVars>>

\* save_model up to the middle of joblib.dump(model_data, model_path): the
\* bundle is built, model_path is opened for writing and holds a part of it
SaveBegin ==
    /\ trainer.stage = "trained"
    /\ trainer' = [trainer EXCEPT !.stage = "saving"]
    /\ saved' = Append(saved, [model_data |-> model_data(trainer, now), source |-> trainer.source])
    /\ file' = [exists |-> TRUE, torn |-> TRUE, fields |-> NoFile.fields]
    /\ UNCHANGED <<eng, lpc, ldata, loaded, input, out>>
    /\ UNCHANGED <<alertVars, procVars>>

\* joblib.dump completes: model_path holds the whole bundle, the one of the
\* Len(saved)-th save
SaveEnd ==
    /\ trainer.stage = "saving"
    /\ trainer' = [trainer EXCEPT !.stage = "saved"]
    /\ file' = Bundle(Len(saved), {})
    /\ UNCHANGED <<eng, lpc, ldata, loaded, input, out, saved>>
    /\ UNCHANGED <<alertVars, procVars>>

\* nothing at model_path, no trainer run yet
InitTrain ==
    /\ InitAlerts
    /\ InitProcs
    /\ InitTrainer
    /\ file = NoFile
    /\ eng = EngineNew
    /\ lpc = 0
    /\ ldata = NoFile.fields
    /\ loaded = FALSE
    /\ input = <<>>
    /\ out = Out("none", FALSE, FALSE, <<>>)

\* runs of main, one after the other, over any history
NextTrain ==
    \/ \E h \in Histories : LoadTrainingData(h)
    \/ TrainModel
    \/ SaveBegin
    \/ SaveEnd

SpecTrain == InitTrain /\ [][NextTrain]_vars

\* runs of main on the synthetic fallback while inference engines are
\* constructed and reload from model_path
NextSave ==
    \/ \E h \in FallbackHistories : LoadTrainingData(h)
    \/ TrainModel
    \/ SaveBegin
    \/ SaveEnd
    \/ Construct
    \/ LoadBegin
    \/ LoadAssign

SpecSave == InitTrain /\ [][NextSave]_vars

\* --------------------------------------------- trigger_alerts retried
\* The trigger_alerts task under default_args: an attempt that raises (or
\* is killed) part way through the predictions is run once more,
\* retry_delay later, over the same XCom predictions.

\* default_args['retries']
Retries == 1
\* default_args['retry_delay'], minutes
RetryDelay == 5

\* the predictions with the failure each one's create_alert call meets
WithFails(preds, fs) == [i \in DOMAIN preds |-> [preds[i] EXCEPT !.fail = fs[i]]]

\* one attempt of the task at time t, getting through the first k predictions
attempt(k, fs, threshold, configured, t) ==
    trigger_loop([alerts |-> alerts, nextId |-> nextId, prev |-> prev, count |-> 0],
                 SubSeq(WithFails(xcom_pull, fs), 1, k), threshold, t, configured)

\* the first attempt: done if it got through all predictions, raised otherwise
TriggerAttempt(k, fs, threshold, configured) ==
    /\ out.op = "predict_delays"
    /\ ret.op # "trigger_alerts"
    /\ \E st \in {attempt(k, fs, threshold, configured, now)} :
           /\ st.nextId <= MaxAlerts + 1
           /\ alerts' = st.alerts
           /\ nextId' = st.nextId
           /\ prev' = st.prev
           /\ ret' = Ret("trigger_alerts", st.count > 0,
                         IF k < Len(xcom_pull) THEN "raised" ELSE "done", st.count)
    /\ UNCHANGED <<now, advances, pc, call>>
    /\ UNCHANGED engVars

\* the retry of an attempt that raised, retry_delay after it
RetryAttempt(k, fs, threshold, configured) ==
    /\ ret.op = "trigger_alerts"
    /\ ret.why = "raised"
    /\ advances < Retries
    /\ now' = now + RetryDelay
    /\ advances' = advances + 1
    /\ \E st \in {attempt(k, fs, threshold, configured, now + RetryDelay)} :
           /\ st.nextId <= MaxAlerts + 1
           /\ alerts' = st.alerts
           /\ nextId' = st.nextId
           /\ prev' = st.prev
           /\ ret' = Ret("trigger_alerts", st.count > 0,
                         IF k < Len(xcom_pull) THEN "retry_raised" ELSE "retry_done",
                         st.count)
    /\ UNCHANGED <<pc, call>>
    /\ UNCHANGED engVars

NextRetry ==
    \/ PredictDelaysTask
    \/ \E k \in 0..Len(out.results), fs \in [DOMAIN out.results -> Failures],
          th \in ProbeThresholds, c \in BOOLEAN : TriggerAttempt(k, fs, th, c)
    \/ \E k \in 0..Len(out.results), fs \in [DOMAIN out.results -> Failures],
          th \in ProbeThresholds, c \in BOOLEAN : RetryAttempt(k, fs, th, c)
    \/ \E id \in 1..MaxAlerts : ResolveAlert(id)

SpecRetry == InitPipeline /\ [][NextRetry]_vars

\* ------------------------------------------------------------- properties

\* the alerts of a shipment that are active and were triggered less than the
\* dedup window ago
ActiveInWindow(sid) ==
    {id \in DOMAIN alerts :
        /\ alerts[id].shipment_id = sid
        /\ alerts[id].is_active
        /\ now - alerts[id].triggered_at < DedupWindow}

\* C1: of the create_alert calls for one (shipment_id, alert_type) that run
\* concurrently, at most one emits inside the dedup window: no two callers
\* have both returned True for the same shipment with rows triggered less
\* than the window apart.
C1_AtMostOneConcurrentEmit ==
    \A p \in Procs, q \in Procs :
        (/\ p # q
         /\ pc[p] = "idle" /\ pc[q] = "idle"
         /\ call[p].val /\ call[q].val
         /\ call[p].sid = call[q].sid)
        => \/ call[p].t - call[q].t >= DedupWindow
           \/ call[q].t - call[p].t >= DedupWindow

\* C2: after any sequence of whole create_alert calls, resolve_alert calls and
\* clock advances, each (shipment_id, alert_type) has at most one alert that
\* is active and was triggered within the last dedup window.
C2_AtMostOneActiveInWindow ==
    \A sid \in Shipments : Cardinality(ActiveInWindow(sid)) <= 1

\* C2's case: a shipment holds two active alerts, one of them outside the window
C2_Witness ==
    \E sid \in Shipments, a \in DOMAIN alerts, b \in DOMAIN alerts :
        /\ a # b
        /\ ActiveInWindow(sid) = {b}
        /\ alerts[a].shipment_id = sid
        /\ alerts[a].is_active

\* C3: of two successive create_alert calls for one (shipment_id, alert_type)
\* the first of which emitted: while the first alert is active and younger
\* than the dedup window the second returns False and inserts nothing; once
\* the window has elapsed or the first alert is resolved, the second (its
\* database step not failing) returns True and inserts one new active row.
C3_SecondTrigger ==
    [][\A sid \in Shipments, sev \in Severities, c \in BOOLEAN, f \in Failures :
         (CreateAlert(sid, sev, c, f) /\ prev[sid] # 0) =>
            LET first == prev[sid]
                live == first \in ActiveInWindow(sid)
            IN  /\ live => (~ret'.val /\ alerts' = alerts)
                /\ (~live /\ c /\ f = "none") =>
                      /\ ret'.val
                      /\ DOMAIN alerts' = DOMAIN alerts \cup {nextId}
                      /\ nextId \notin DOMAIN alerts
                      /\ alerts'[nextId].shipment_id = sid
                      /\ alerts'[nextId].is_active
                      /\ alerts'[nextId].triggered_at = now
                      /\ \A i \in DOMAIN alerts : alerts'[i] = alerts[i]
      ]_vars

\* C3's case: the second trigger has emitted alert 2 while the first alert of
\* the shipment is resolved and still younger than the window
C3_Witness ==
    \E sid \in Shipments :
        /\ ret.op = "create_alert" /\ ret.val
        /\ prev[sid] = 2
        /\ 1 \in DOMAIN alerts
        /\ alerts[1].shipment_id = sid
        /\ ~alerts[1].is_active
        /\ now - alerts[1].triggered_at < DedupWindow

\* C4: an alert whose is_active is false is never active again, whatever
\* runs (trigger_alerts with its create_alert calls, resolve_alert,
\* cleanup_old_data): it stays resolved or is deleted, and every row that
\* appears is a new row under an id never used before.
C4_ResolvedIsTerminal ==
    [][/\ \A id \in DOMAIN alerts :
            ~alerts[id].is_active =>
                (id \notin DOMAIN alerts' \/ ~alerts'[id].is_active)
       /\ \A id \in DOMAIN alerts' \ DOMAIN alerts :
            id >= nextId /\ id < nextId'
       /\ \A id \in DOMAIN alerts : id < nextId
      ]_vars

\* C4's case: alert 1 is resolved and a later trigger for its shipment has
\* created alert 2, active
C4_Witness ==
    /\ DOMAIN alerts = {1, 2}
    /\ alerts[1].shipment_id = alerts[2].shipment_id
    /\ ~alerts[1].is_active
    /\ alerts[2].is_active
    /\ alerts[2].triggered_at >= alerts[1].resolved_at

\* C5: predict_batch on an engine without a loaded artifact raises the
\* not-ready error to its caller instead of returning a list of results.
C5_BatchPropagatesNotReady ==
    [][(PredictBatch /\ eng["model"] = 0 /\ input # <<>>) => out'.raised]_vars

\* C6: predict_delay called when no load_model call has succeeded (and none
\* is in progress) raises the not-ready error and returns no result.
C6_PredictBeforeLoadRaises ==
    [][(PredictDelay /\ ~loaded /\ lpc = 0) =>
          (out'.raised /\ out'.results = <<>>)]_vars

\* predict_delay's readiness test: self.model is not None
Ready(e) == e["model"] # 0

\* C7: predict_batch on a loaded engine returns as many results as it was
\* given shipments, results[i] being the result for input[i]: its shipment_id,
\* and the classifier's probability for it unless the item failed.
C7_BatchKeepsLengthAndOrder ==
    [][(PredictBatch /\ Ready(eng)) =>
          /\ Len(out'.results) = Len(input)
          /\ \A i \in 1..Len(input) :
                /\ i \in DOMAIN out'.results
                /\ out'.results[i].shipment_id = input[i].obs.shipment_id
                /\ out'.results[i].error = "none" =>
                      out'.results[i].delay_probability = input[i].c.p
      ]_vars

\* C7's case: a batch of two different shipments on a loaded engine, the
\* first item failed and the second did not
C7_Witness ==
    /\ out.op = "predict_batch"
    /\ Len(input) = 2 /\ Len(out.results) = 2
    /\ input[1].obs.shipment_id # input[2].obs.shipment_id
    /\ out.results[1].error # "none"
    /\ out.results[2].error = "none"

\* feature building, scaling or classification raises for the item
ItemRaises(e, it) ==
    \/ it.obs.distance.kind = "absent"
    \/ e["scaler"] = 0 \/ e["feature_columns"] = 0
    \/ ~it.c.ok

\* C8: in predict_batch on a loaded engine an item whose feature building,
\* scaling or classification raises does not raise to the caller and does not
\* end the batch: it yields probability 0.5, Medium, 60 minutes and an error,
\* and every other item still gets its own evaluated result.
C8_FailingItemIsDegraded ==
    [][(PredictBatch /\ Ready(eng)) =>
          /\ ~out'.raised
          /\ DOMAIN out'.results = DOMAIN input
          /\ \A i \in DOMAIN input :
                LET it == input[i]
                    r == out'.results[i]
                IN  /\ ItemRaises(eng, it) =>
                          /\ r.delay_probability = 50
                          /\ r.risk_level = "Medium"
                          /\ r.estimated_delay_minutes = 60
                          /\ r.error # "none"
                          /\ r.shipment_id = it.obs.shipment_id
                    /\ (~ItemRaises(eng, it) /\ it.obs.distance.kind = "num") =>
                          /\ r.error = "none"
                          /\ r.delay_probability = it.c.p
      ]_vars

\* C8's case: the classifier raised for the first item of a batch and the
\* second item was evaluated to probability 0.9
C8_Witness ==
    /\ out.op = "predict_batch"
    /\ Len(input) = 2 /\ Len(out.results) = 2
    /\ ~input[1].c.ok
    /\ out.results[1].error = "classify"
    /\ out.results[1].estimated_delay_minutes = 60
    /\ out.results[2].error = "none"
    /\ out.results[2].delay_probability = 90

\* C9 as claimed: every result returned, degraded ones included, has
\* estimated_delay_minutes = 0 when its delay_probability is at most 0.5.
C9_ZeroDelayUpToHalf ==
    \A i \in DOMAIN out.results :
        out.results[i].delay_probability <= 50 =>
            out.results[i].estimated_delay_minutes = 0

\* C9 amended: every result without an error has estimated_delay_minutes = 0
\* when its delay_probability is at most 0.5; a result with an error carries
\* probability 0.5 and 60 minutes.
C9_ZeroDelayUnlessDegraded ==
    \A i \in DOMAIN out.results :
        LET r == out.results[i]
        IN  /\ (r.error = "none" /\ r.delay_probability <= 50) =>
                  r.estimated_delay_minutes = 0
            /\ r.error # "none" =>
                  (r.delay_probability = 50 /\ r.estimated_delay_minutes = 60)

\* C9's case: a batch returned a result at probability exactly 0.5 for a
\* shipment 1500 km out, next to a degraded one
C9_Witness ==
    /\ out.op = "predict_batch"
    /\ Len(out.results) = 2
    /\ input[1].obs.distance = Km(1500)
    /\ out.results[1].error = "none"
    /\ out.results[1].delay_probability = 50
    /\ out.results[1].estimated_delay_minutes = 0
    /\ out.results[2].error # "none"

\* C10: a predict that reads the engine never finds it holding only some of
\* its four fields from the bundle a load_model is putting in place.
C10_LoadIsAtomic ==
    [][(PredictDelay \/ (PredictBatch /\ input # <<>>)) =>
          \A f \in Fields, g \in Fields : eng[f] = eng[g]]_vars

\* C11: constructing the engine or calling load_model with nothing at
\* model_path fails towards the caller: the call raises or reports failure,
\* it does not complete as a success.
C11_MissingArtifactSurfaces ==
    [][((Construct \/ LoadBegin) /\ ~file.exists) =>
          (out'.raised \/ ~out'.ok)]_vars

\* C12: a load_model of a bundle lacking a required field leaves the four
\* fields as they were: as long as no load has succeeded and none is under
\* way, the engine is as constructed and so not ready.
C12_FailedLoadLeavesEngine ==
    (lpc = 0 /\ ~loaded) => eng = EngineNew

\* C13: a prediction without an error has risk_level High exactly when its
\* probability is at least 0.7, Medium exactly when it is at least 0.4 and
\* below 0.7, and Low exactly when it is below 0.4.
C13_RiskLevelTiers ==
    \A i \in DOMAIN out.results :
        out.results[i].error = "none" =>
            /\ out.results[i].risk_level = "High"
                   <=> out.results[i].delay_probability >= 70
            /\ out.results[i].risk_level = "Medium"
                   <=> (out.results[i].delay_probability >= 40
                        /\ out.results[i].delay_probability < 70)
            /\ out.results[i].risk_level = "Low"
                   <=> out.results[i].delay_probability < 40

\* C13's case: predict_delay returned a prediction at probability exactly 0.7,
\* rated High
C13_Witness ==
    /\ out.op = "predict_delay"
    /\ out.results # <<>>
    /\ out.results[1].error = "none"
    /\ out.results[1].delay_probability = 70
    /\ out.results[1].risk_level = "High"

\* a / b rounded to the nearest integer, halves to the even one (b > 0)
RoundDiv(a, b) ==
    LET q == a \div b
        r == a % b
    IN  IF 2 * r > b THEN q + 1
        ELSE IF 2 * r < b THEN q
        ELSE IF q % 2 = 0 THEN q ELSE q + 1

\* C14: a prediction without an error, at probability above 0.5 for a numeric
\* distance d, has estimated_delay_minutes = p * 120 * min(d / 1000, 2)
\* rounded to the nearest integer.
C14_EstimateIsRounded ==
    (out.op \in {"predict_delay", "predict_batch"}) =>
        \A i \in DOMAIN out.results :
            (/\ out.results[i].error = "none"
             /\ out.results[i].delay_probability > 50
             /\ input[i].obs.distance.kind = "num")
            => out.results[i].estimated_delay_minutes =
                   RoundDiv(out.results[i].delay_probability * 120
                                * Min(input[i].obs.distance.km, 2000),
                            100 * 1000)

\* C15: every prediction returned has estimated_delay_minutes >= 0.
C15_EstimateNotNegative ==
    \A i \in DOMAIN out.results : out.results[i].estimated_delay_minutes >= 0

\* C16: a shipment whose distance_remaining_km is no number gets, whatever
\* probability the classifier gives it, the prediction of a shipment 1000 km
\* out, with no error on it.
C16_BadDistanceIsSilentDefault ==
    (out.op \in {"predict_delay", "predict_batch"}) =>
        \A i \in DOMAIN out.results :
            (input[i].obs.distance.kind = "text" /\ input[i].c.ok)
            => out.results[i] =
                   Result(input[i].obs.shipment_id, input[i].c.p,
                          RiskLevel(input[i].c.p),
                          EstimatedDelay(input[i].c.p, 1000), "none")

\* C17: should_trigger_alert answers true exactly when the prediction's
\* probability is at least the threshold, and every alert trigger_alerts
\* creates is for a shipment whose pulled prediction is at least the
\* threshold.
C17_AlertOnlyAtThreshold ==
    [][/\ \A th \in ProbeThresholds :
             ShouldTriggerAlert(th) =>
                 (out'.ok <=> Head(out.results).delay_probability >= th)
       /\ \A th \in ProbeThresholds, c \in BOOLEAN :
             TriggerAlerts(xcom_pull, th, c) =>
                 \A id \in DOMAIN alerts' \ DOMAIN alerts :
                     \E i \in DOMAIN out.results :
                         /\ out.results[i].shipment_id = alerts'[id].shipment_id
                         /\ out.results[i].delay_probability >= th
      ]_vars

\* C17's case: trigger_alerts has gone through a prediction of 0.65 for S1
\* and one of exactly 0.7 for S2, and the only alert is for S2
C17_Witness ==
    /\ ret.op = "trigger_alerts"
    /\ Len(out.results) = 2
    /\ out.results[1].delay_probability = 65
    /\ out.results[2].delay_probability = 70
    /\ DOMAIN alerts = {1}
    /\ alerts[1].shipment_id = "S2"

\* C18: every alert trigger_alerts creates is High when the probability of
\* the prediction it is for is at least 0.8, and Medium otherwise.
C18_SeverityTiers ==
    [][\A th \in ProbeThresholds, c \in BOOLEAN :
          TriggerAlerts(xcom_pull, th, c) =>
              \A id \in DOMAIN alerts' \ DOMAIN alerts :
                  \A i \in DOMAIN out.results :
                      out.results[i].shipment_id = alerts'[id].shipment_id =>
                          alerts'[id].severity =
                              IF out.results[i].delay_probability >= 80
                              THEN "High" ELSE "Medium"
      ]_vars

\* C18's case: a prediction of exactly 0.7, rated High, has a Medium alert
\* and one of 0.85 a High alert
C18_Witness ==
    /\ Len(out.results) = 2
    /\ out.results[1].delay_probability = 70
    /\ out.results[1].risk_level = "High"
    /\ out.results[2].delay_probability = 85
    /\ DOMAIN alerts = {1, 2}
    /\ alerts[1].shipment_id = "S1" /\ alerts[1].severity = "Medium"
    /\ alerts[2].shipment_id = "S2" /\ alerts[2].severity = "High"

\* C19: whatever fields the observation has and whatever the schema,
\* prepare_features returns one entry per column of feature_columns, in
\* their order, and a schema column that is not a computed field holds 0.
C19_VectorMatchesSchema ==
    out.op = "prepare_features" =>
        /\ ~out.raised
        /\ Len(out.results) = Len(input[1].feature_columns)
        /\ \A i \in DOMAIN out.results :
               /\ out.results[i].col = input[1].feature_columns[i]
               /\ out.results[i].col \notin ComputedFields =>
                      (out.results[i].src = "filled" /\ out.results[i].val = 0)

\* C20: with distance and speed in the observation, a weather or
\* traffic_level value outside the encoder's classes, or one with no encoder
\* in the artifact, does not make prepare_features raise, and its encoded
\* column holds 0.
C20_UnseenCategoryIsZero ==
    (/\ out.op = "prepare_features"
     /\ input[1].obs.distance.kind # "absent"
     /\ input[1].obs.speed.kind # "absent") =>
        /\ ~out.raised
        /\ \A c \in CatFields :
               (\/ c \notin DOMAIN input[1].feature_encoders
                \/ ~\E k \in DOMAIN Classes[c] : Classes[c][k] = input[1].obs[c])
               => \A i \in DOMAIN out.results :
                      out.results[i].col = c \o "_encoded" => out.results[i].val = 0

\* C20's case: the trained schema, an encoder for weather only, weather
\* "Hail" and traffic_level "Heavy": both encoded columns came out 0
C20_Witness ==
    /\ out.op = "prepare_features"
    /\ ~out.raised
    /\ input[1].feature_columns = TrainedColumns
    /\ DOMAIN input[1].feature_encoders = {"weather"}
    /\ input[1].obs.weather = "Hail"
    /\ input[1].obs.traffic_level = "Heavy"
    /\ out.results[3] = Entry("weather_encoded", "computed", 0)
    /\ out.results[4] = Entry("traffic_level_encoded", "computed", 0)

\* C30: a create_alert call sends at most one notification, and only for a
\* row it has committed; a call without DATABASE_URL, a suppressed call and
\* a call whose database step fails send none; the call returns True only
\* with its row committed.
C30_NotifyOnlyCommitted ==
    [][\A sid \in Shipments, sev \in Severities, c \in BOOLEAN, f \in Failures :
         CreateAlert(sid, sev, c, f) =>
            /\ ret'.count \in {0, 1}
            /\ ret'.count = 1 =>
                  (nextId \notin DOMAIN alerts /\ nextId \in DOMAIN alerts')
            /\ (~c \/ f # "none" \/ SelectSimilar(alerts, sid, now) # {}) =>
                  ret'.count = 0
            /\ ret'.val =>
                  (nextId \notin DOMAIN alerts /\ nextId \in DOMAIN alerts')
      ]_vars

\* C30's case: a call has committed alert 1 and sent its notification, and
\* the next call for the shipment was suppressed and sent none
C30_Witness ==
    /\ ret.op = "create_alert"
    /\ ret.why = "suppressed"
    /\ ret.count = 0
    /\ 1 \in DOMAIN alerts
    /\ alerts[1].is_active

\* C28 as claimed: whatever threshold trigger_alerts runs with, none of the
\* alerts it creates is for a shipment whose pulled prediction carries an
\* error.
C28_NoAlertFromDegraded ==
    [][\A th \in ProbeThresholds, c \in BOOLEAN :
          TriggerAlerts(xcom_pull, th, c) =>
              \A id \in DOMAIN alerts' \ DOMAIN alerts :
                  \A i \in DOMAIN out.results :
                      out.results[i].shipment_id = alerts'[id].shipment_id =>
                          out.results[i].error = "none"
      ]_vars

\* C28 amended: with a threshold above 0.5, none of the alerts
\* trigger_alerts creates is for a shipment whose pulled prediction carries
\* an error.
C28_NoAlertFromDegradedAboveHalf ==
    [][\A th \in ProbeThresholds, c \in BOOLEAN :
          (th > 50 /\ TriggerAlerts(xcom_pull, th, c)) =>
              \A id \in DOMAIN alerts' \ DOMAIN alerts :
                  \A i \in DOMAIN out.results :
                      out.results[i].shipment_id = alerts'[id].shipment_id =>
                          out.results[i].error = "none"
      ]_vars

\* C28's case: trigger_alerts has gone through a degraded prediction for S1
\* and one of 0.85 for S2, and created the alert for S2 alone
C28_Witness ==
    /\ ret.op = "trigger_alerts"
    /\ ret.count = 1
    /\ Len(out.results) = 2
    /\ out.results[1].error # "none"
    /\ out.results[2].delay_probability = 85
    /\ DOMAIN alerts = {1}
    /\ alerts[1].shipment_id = "S2"

\* C22 as claimed: a prepare_features call with the arguments of the call
\* before it, whenever it is made and whatever fields the observation has,
\* returns what that call returned.
C22_SameArgumentsSameVector ==
    [][(PrepareFeatures /\ out.op = "prepare_features") =>
          (out'.raised = out.raised /\ out'.results = out.results)]_vars

\* C22 amended: for an observation that carries a timestamp, a
\* prepare_features call with the arguments of the call before it returns
\* what that call returned, whenever it is made.
C22_SameArgumentsSameVectorWithTimestamp ==
    [][(/\ PrepareFeatures
        /\ out.op = "prepare_features"
        /\ input[1].obs.timestamp # NoKey) =>
          (out'.raised = out.raised /\ out'.results = out.results)]_vars

\* C22's case: thirty days into the run, prepare_features has returned the
\* trained schema's vector for a timestamped observation, hour_of_day 14 on
\* a Monday
C22_Witness ==
    /\ out.op = "prepare_features"
    /\ ~out.raised
    /\ now >= 43200
    /\ input[1].obs.timestamp # NoKey
    /\ input[1].feature_columns = TrainedColumns
    /\ out.results[5] = Entry("hour_of_day", "computed", 14)
    /\ out.results[6] = Entry("day_of_week", "computed", 0)

\* C21: code 0 belongs to the fallback alone: a weather or traffic_level
\* value that is in its encoder's trained classes is never encoded as 0.
C21_ZeroIsReserved ==
    (out.op = "prepare_features" /\ ~out.raised) =>
        \A c \in CatFields :
            (/\ c \in DOMAIN input[1].feature_encoders
             /\ \E k \in DOMAIN Classes[c] : Classes[c][k] = input[1].obs[c])
            => \A i \in DOMAIN out.results :
                   out.results[i].col = c \o "_encoded" => out.results[i].val # 0

\* C26: on an engine a load has succeeded on, predict_delay (with the
\* prepare_features call inside it), predict_batch and should_trigger_alert
\* leave model, scaler, feature_encoders and feature_columns as they are,
\* whatever they return.
C26_PredictionLeavesArtifact ==
    [][(/\ loaded
        /\ \/ PredictDelay
           \/ PredictBatch
           \/ \E th \in ProbeThresholds : ShouldTriggerAlert(th)) =>
          eng' = eng]_vars

\* C26's case: predict_delay has returned a degraded result and the engine
\* still holds the four fields of the bundle it loaded
C26_Witness ==
    /\ loaded
    /\ out.op = "predict_delay"
    /\ out.results # <<>>
    /\ out.results[1].error # "none"
    /\ eng = Bundle(1, {}).fields

\* C29: the retry of trigger_alerts over the same predictions creates no
\* second alert for a shipment whose alert from the first attempt is still
\* active: after the retry that shipment has exactly one alert.
C29_RetryEmitsNoDuplicate ==
    [][\A k \in 0..Len(out.results), fs \in [DOMAIN out.results -> Failures],
         th \in ProbeThresholds, c \in BOOLEAN :
          RetryAttempt(k, fs, th, c) =>
              \A sid \in Shipments :
                  (\E id \in DOMAIN alerts :
                      alerts[id].shipment_id = sid /\ alerts[id].is_active)
                  => /\ \A id \in DOMAIN alerts' \ DOMAIN alerts :
                           alerts'[id].shipment_id # sid
                     /\ Cardinality({id \in DOMAIN alerts' :
                                        alerts'[id].shipment_id = sid}) = 1
      ]_vars

\* C29's case: the first attempt emitted the alert for S1 and raised; the
\* retry, five minutes later, emitted only the alert for S2
C29_Witness ==
    /\ ret.op = "trigger_alerts"
    /\ ret.why = "retry_done"
    /\ ret.count = 1
    /\ DOMAIN alerts = {1, 2}
    /\ alerts[1].shipment_id = "S1" /\ alerts[1].is_active
    /\ alerts[1].triggered_at = now - RetryDelay
    /\ alerts[2].shipment_id = "S2" /\ alerts[2].triggered_at = now

\* C23: a reader that loads model_path at any moment of a save meets the
\* whole previous bundle, no file, or the whole new bundle, never a part of one
C23_ReaderSeesWholeBundle ==
    [][(Construct \/ LoadBegin) => ~file.torn]_vars

\* C24: the encoders and the scaler are fitted on rows of the training split
\* only (no held-out row is handed to a fit, and every class of a fitted
\* encoder is the value of a training row), and the bundle save_model builds
\* holds these fitted objects
C24_FitOnTrainingSplitOnly ==
    trainer.stage \in {"trained", "saving", "saved"} =>
        LET train == DOMAIN trainer.df \ trainer.test
        IN  /\ trainer.encoder_fit \subseteq train
            /\ \A c \in CatFields :
                  \A k \in DOMAIN trainer.feature_encoders[c] :
                      \E i \in train : trainer.df[i][c] = trainer.feature_encoders[c][k]
            /\ trainer.scaler_fit \subseteq train
            /\ trainer.stage \in {"saving", "saved"} =>
                  /\ saved[Len(saved)].model_data.feature_encoders = trainer.feature_encoders
                  /\ saved[Len(saved)].model_data.scaler = trainer.scaler_fit

\* what a bundle holds beside the fitted objects, the column order and the
\* time of training
Marker(md) ==
    [k \in DOMAIN md \ {"model", "scaler", "feature_encoders", "feature_columns", "trained_at"}
        |-> md[k]]

\* C25: training on the synthetic fallback ends in a saved artifact, and an
\* artifact trained on synthetic data never carries the same marker (flag or
\* version) as one trained on real history
C25_SyntheticIsMarked ==
    \A i, j \in DOMAIN saved :
        saved[i].source # saved[j].source =>
            Marker(saved[i].model_data) # Marker(saved[j].model_data)

\* a training row as the observation handed to prepare_features
ObsOf(row) ==
    [distance |-> row.distance, speed |-> row.speed, weather |-> row.weather,
     traffic_level |-> row.traffic_level, timestamp |-> row.timestamp]

\* C27: for every row of the training frame and every column of
\* feature_columns, prepare_features under the saved artifact gives the row the
\* value engineer_features gave it, the two risk scores included
C27_TrainServeParity ==
    trainer.stage = "saved" =>
        LET md == saved[Len(saved)].model_data
        IN  \A i \in DOMAIN trainer.df :
                LET r == prepare_features(md.feature_columns, md.feature_encoders,
                                          ObsOf(trainer.df[i]), now)
                IN  /\ ~r.raised
                    /\ \A k \in DOMAIN md.feature_columns :
                          r.vector[k].val = trainer.X[i][k]

====
